---- MODULE Spec2Model ----
(***************************************************************************)
(* A model of the venus-fastapi backend: the match upsert                  *)
(* (app/api/v1/matches.py) and the payment lifecycle                       *)
(* (app/api/v1/payments.py, app/core/daraja_helper.py).                    *)
(*                                                                         *)
(* The relational store is the only shared state.  A request handler is    *)
(* one action, except where the handler reads the store and commits later  *)
(* with other requests able to run in between: the match upsert is split   *)
(* at its SELECT (MatchBegin) and its commit (MatchCommit), and its        *)
(* background task is the step after the response (RunTask).  The          *)
(* initiate-stk handler is split at its insert (InitiateStk), the call to  *)
(* the provider (StkPush) and the commit of the provider's answer          *)
(* (StkCommit); the webhook (DarajaCallback) may run between them.         *)
(*                                                                         *)
(* datetime.now() is an input of the step that reads it.  resp records     *)
(* what the last step did and answered.                                    *)
(*                                                                         *)
(* The columns date_created, date_updated and meta of BaseModel are left   *)
(* out: no handler modelled here reads them.                               *)
(***************************************************************************)
EXTENDS Integers, Sequences, FiniteSets, TLC

VARIABLES
    users,      \* the rows of table "users"
    profiles,   \* the rows of table "profiles"
    matches,    \* the rows of table "matches"
    inflight,   \* per worker: the match upsert it is serving, or its background task
    plans,      \* the rows of table "payment_plans"
    payments,   \* the rows of table "payments"
    stk,        \* the initiate-stk requests between their insert and their response
    resp        \* what the last step did: the operation, its status and body

vars == <<users, profiles, matches, inflight, plans, payments, stk, resp>>

NULL == "NULL"

\* ------------------------------------------------------------------ bounds
MaxMatches == 2
MaxPayments == 2
MaxNow == 1
MaxPlans == 1

\* ------------------------------------------------------------------- users
Users == {"u1", "u2", "u3"}

\* users.fcm_token: u1 has registered a delivery token, the others have not
FcmToken(u) == IF u = "u1" THEN "tok1" ELSE NULL

Workers == {"w1", "w2"}

Idle == [pc |-> "idle"]

\* Python truthiness of an Optional[str] / Optional[UUID]
TruthyAlways(v) == TRUE

Truthy(v) == v # NULL /\ v # ""

\* ================================================================= matches

\* The request bodies (MatchCreateRequest) the clients send
MatchRequests ==
    { [my_id |-> "u1", partner_id |-> "u2", thread_id |-> "t1",
       last_message |-> NULL, last_message_date |-> NULL, sent_by |-> NULL],
      [my_id |-> "u1", partner_id |-> "u2", thread_id |-> "t1",
       last_message |-> "hi", last_message_date |-> "d1", sent_by |-> "u1"],
      [my_id |-> "u1", partner_id |-> "u2", thread_id |-> "t1",
       last_message |-> "yo", last_message_date |-> "d2", sent_by |-> "u2"],
      [my_id |-> "u1", partner_id |-> "u2", thread_id |-> "t1",
       last_message |-> "", last_message_date |-> "d1", sent_by |-> "u1"],
      [my_id |-> "u1", partner_id |-> "u2", thread_id |-> "t1",
       last_message |-> "hi", last_message_date |-> NULL, sent_by |-> "u3"],
      [my_id |-> "u2", partner_id |-> "u1", thread_id |-> "t1",
       last_message |-> "hi", last_message_date |-> "d1", sent_by |-> "u2"],
      [my_id |-> "u1", partner_id |-> "u2", thread_id |-> "t2",
       last_message |-> NULL, last_message_date |-> NULL, sent_by |-> NULL] }

Callers == {"u1", "u2"}

SameKey(m, req) ==
    /\ m.my_id = req.my_id
    /\ m.partner_id = req.partner_id
    /\ m.thread_id = req.thread_id

\* db.query(Match).filter(my_id ==, partner_id ==, thread_id ==): the rows found
FindMatches(ms, req) == { m \in ms : SameKey(m, req) }

\* uq_match_my_partner_thread: does inserting a row with req's key violate it
ViolatesUniqueNoCheck(ms, req) == FALSE

ViolatesUnique(ms, req) == \E m \in ms : SameKey(m, req)

\* uuid4(): a fresh match_id
NewMatchId(ms) == Cardinality(ms) + 1

\* Match(...) of the create branch
NewMatch(ms, req, caller) ==
    [match_id |-> NewMatchId(ms),
     my_id |-> req.my_id, partner_id |-> req.partner_id,
     thread_id |-> req.thread_id,
     last_message |-> req.last_message,
     last_message_date |-> req.last_message_date,
     sent_by |-> req.sent_by,
     created_by |-> caller, updated_by |-> caller,
     active |-> TRUE]

\* the update branch: the four assignments to existing_match
UpdatedMatchKeepsSender(m, req, caller) ==
    [m EXCEPT !.last_message = req.last_message,
              !.last_message_date = req.last_message_date,
              !.updated_by = caller]

UpdatedMatch(m, req, caller) ==
    [m EXCEPT !.last_message = req.last_message,
              !.last_message_date = req.last_message_date,
              !.sent_by = req.sent_by,
              !.updated_by = caller]

\* the chat notification's addressee: the party who did not send the message
ChatPartner(req) ==
    IF req.sent_by = req.my_id THEN req.partner_id ELSE req.my_id

\* the my_id check of create_or_update_match
MayUpsertAnyone(req, caller) == TRUE

MayUpsert(req, caller) == req.my_id = caller

\* what a step of the match upsert leaves in resp
MatchResp(op, status, w, outcome, id, caller, req) ==
    [op |-> op, status |-> status, worker |-> w, outcome |-> outcome,
     match_id |-> id, caller |-> caller, req |-> req]

\* create_or_update_match up to its SELECT: the 403, or the row found
MatchBegin(w, caller, req) ==
    /\ inflight[w] = Idle
    /\ IF ~MayUpsert(req, caller)
       THEN /\ resp' = MatchResp("match_upsert", 403, w, "forbidden", 0, caller, req)
            /\ UNCHANGED <<matches, inflight>>
       ELSE /\ \E found \in (IF FindMatches(matches, req) = {}
                             THEN {0}
                             ELSE { m.match_id : m \in FindMatches(matches, req) }) :
                 inflight' = [inflight EXCEPT ![w] =
                     [pc |-> "commit", caller |-> caller, req |-> req,
                      existing |-> found]]
            /\ resp' = MatchResp("match_select", 0, w, "pending", 0, caller, req)
            /\ UNCHANGED matches
    /\ UNCHANGED <<users, profiles, plans, payments, stk>>

\* create_or_update_match from the branch on existing_match to its return
MatchCommit(w) ==
    /\ inflight[w].pc = "commit"
    /\ LET req == inflight[w].req
           caller == inflight[w].caller
           existing == inflight[w].existing
       IN IF existing # 0
          THEN /\ matches' = { IF m.match_id = existing
                               THEN UpdatedMatch(m, req, caller)
                               ELSE m : m \in matches }
               /\ inflight' = [inflight EXCEPT ![w] =
                     IF Truthy(req.last_message) /\ Truthy(req.sent_by)
                     THEN [pc |-> "task", kind |-> "chat",
                           match_id |-> existing,
                           partner_id |-> ChatPartner(req),
                           sender_id |-> req.sent_by]
                     ELSE Idle]
               /\ resp' = MatchResp("match_upsert", 201, w, "update", existing,
                                   caller, req)
          ELSE IF ViolatesUnique(matches, req)
          THEN \* IntegrityError at db.commit(): the request fails, nothing is stored
               /\ resp' = MatchResp("match_upsert", 500, w, "integrity_error", 0,
                                   caller, req)
               /\ inflight' = [inflight EXCEPT ![w] = Idle]
               /\ UNCHANGED matches
          ELSE /\ Cardinality(matches) < MaxMatches
               /\ matches' = matches \cup {NewMatch(matches, req, caller)}
               /\ inflight' = [inflight EXCEPT ![w] =
                     [pc |-> "task", kind |-> "match",
                      match_id |-> NewMatchId(matches),
                      partner_id |-> req.partner_id,
                      sender_id |-> NULL]]
               /\ resp' = MatchResp("match_upsert", 201, w, "create",
                                   NewMatchId(matches), caller, req)
    /\ UNCHANGED <<users, profiles, plans, payments, stk>>

\* _send_match_notification / _send_chat_notification, run after the response:
\* skipped when the match, the partner, the partner's token or (chat) the
\* stored sent_by is missing; a failure of the delivery is logged and dropped
RunTask(w) ==
    /\ inflight[w].pc = "task"
    /\ LET t == inflight[w]
           found == { m \in matches : m.match_id = t.match_id }
           skipped ==
               \/ found = {}
               \/ t.partner_id \notin Users
               \/ ~Truthy(FcmToken(t.partner_id))
               \/ t.kind = "chat" /\ t.sender_id \notin Users
               \/ t.kind = "chat" /\ \A m \in found : m.sent_by = NULL
       IN \E delivered \in BOOLEAN :
             resp' = [op |-> "notify_" \o t.kind, status |-> 0, worker |-> w,
                      outcome |-> IF skipped THEN "skipped"
                                  ELSE IF delivered THEN "sent" ELSE "failed",
                      match_id |-> t.match_id, to |-> t.partner_id]
    /\ inflight' = [inflight EXCEPT ![w] = Idle]
    /\ UNCHANGED <<users, profiles, matches, plans, payments, stk>>

\* ================================================================ datetimes
\* A datetime is <<year, month, day, hour, minute, second>> (UTC).

\* datetime.now(timezone.utc) when the clock reads t
NowDT(t) == <<2024, 1, 31, 0, 0, t>>

IsLeap(y) == (y % 4 = 0 /\ y % 100 # 0) \/ y % 400 = 0

DaysInMonth(y, m) ==
    IF m = 2 THEN (IF IsLeap(y) THEN 29 ELSE 28)
    ELSE IF m \in {4, 6, 9, 11} THEN 30 ELSE 31

\* dt + relativedelta(months=n): the month moves, the day is clamped to the
\* target month's length
AddMonths(dt, n) ==
    LET total == (dt[2] - 1) + n
        y == dt[1] + (total \div 12)
        m == (total % 12) + 1
        d == IF dt[3] > DaysInMonth(y, m) THEN DaysInMonth(y, m) ELSE dt[3]
    IN <<y, m, d, dt[4], dt[5], dt[6]>>

\* A string is the sequence of its characters.
DigitOf ==
    "0" :> 0 @@ "1" :> 1 @@ "2" :> 2 @@ "3" :> 3 @@ "4" :> 4 @@
    "5" :> 5 @@ "6" :> 6 @@ "7" :> 7 @@ "8" :> 8 @@ "9" :> 9

\* Python's s[a:b]
Slice(s, a, b) ==
    SubSeq(s, a + 1, IF b < Len(s) THEN b ELSE Len(s))

RECURSIVE DigitsValue(_)
DigitsValue(cs) ==
    IF cs = <<>> THEN 0
    ELSE 10 * DigitsValue(SubSeq(cs, 1, Len(cs) - 1)) + DigitOf[cs[Len(cs)]]

\* int(cs), with -1 standing for ValueError (empty, or a character that is no digit)
IntOf(cs) ==
    IF cs = <<>> \/ \E i \in 1..Len(cs) : cs[i] \notin DOMAIN DigitOf
    THEN -1
    ELSE DigitsValue(cs)

\* daraja_timestamp_to_datetime: YYYYMMDDHHMMSS, or the current time when the
\* text does not parse or names no calendar instant
DarajaTimestampAlwaysNow(s, t) == NowDT(t)

DarajaTimestampToDatetime(s, t) ==
    LET year   == IntOf(Slice(s, 0, 4))
        month  == IntOf(Slice(s, 4, 6))
        day    == IntOf(Slice(s, 6, 8))
        hour   == IntOf(Slice(s, 8, 10))
        minute == IntOf(Slice(s, 10, 12))
        second == IntOf(Slice(s, 12, 14))
    IN IF /\ year >= 1 /\ year <= 9999
          /\ month >= 1 /\ month <= 12
          /\ day >= 1 /\ day <= DaysInMonth(year, month)
          /\ hour >= 0 /\ hour <= 23
          /\ minute >= 0 /\ minute <= 59
          /\ second >= 0 /\ second <= 59
       THEN <<year, month, day, hour, minute, second>>
       ELSE NowDT(t)

\* ========================================================== payment plans

\* POST /payment-plans bodies
PlanRequests ==
    { [amount |-> 100, months |-> 1, active |-> TRUE],
      [amount |-> 100, months |-> 1, active |-> FALSE] }

PlanIds == <<"p1", "p2">>

\* create_payment_plan
CreatePlan(caller, req) ==
    /\ Cardinality(plans) < MaxPlans
    /\ plans' = plans \cup
          {[plan_id |-> PlanIds[Cardinality(plans) + 1],
            amount |-> req.amount, months |-> req.months,
            active |-> req.active]}
    /\ resp' = [op |-> "create_plan", status |-> 201]
    /\ UNCHANGED <<users, profiles, matches, inflight, payments, stk>>

\* the plan-level active toggle, done on the store directly
DeactivatePlan(pid) ==
    /\ \E pl \in plans : pl.plan_id = pid /\ pl.active
    /\ plans' = { IF pl.plan_id = pid THEN [pl EXCEPT !.active = FALSE] ELSE pl
                  : pl \in plans }
    /\ resp' = [op |-> "deactivate_plan", status |-> 0]
    /\ UNCHANGED <<users, profiles, matches, inflight, payments, stk>>

\* ================================================================ payments

\* datetime.now() reads the wall clock, which no handler controls: the second
\* read is an input of the step.  Payments are created in second 0, webhooks
\* arrive in any second up to MaxNow.
CreateTimes == {0}

Clock == 0..MaxNow

\* PaymentCreateRequest bodies
PayRequests ==
    { [amount |-> 100, plan_id |-> "p1", phone_number |-> "254712345678",
       mpesa_transaction_id |-> NULL, payment_ref |-> NULL],
      [amount |-> 100, plan_id |-> "p1", phone_number |-> NULL,
       mpesa_transaction_id |-> NULL, payment_ref |-> NULL] }

\* the plan query of create_payment and initiate_stk_payment: by id, active only
ValidPlansAnyState(ps, plan_id) == { pl \in ps : pl.plan_id = plan_id }

ValidPlans(ps, plan_id) == { pl \in ps : pl.plan_id = plan_id /\ pl.active }

\* the phone_number check of initiate_stk_payment
PhoneMissing(req) == ~Truthy(req.phone_number)

NewPaymentId(ps) == Cardinality(ps) + 1

\* Payment(...) of create_payment and initiate_stk_payment
NewPayment(ps, req, caller, plan, t) ==
    [payment_id |-> NewPaymentId(ps),
     user_id |-> caller,
     payment_ref |-> req.payment_ref,
     payment_date |-> NowDT(t),
     valid_until |-> AddMonths(NowDT(t), plan.months),
     amount |-> req.amount,
     plan_id |-> req.plan_id,
     mpesa_transaction_id |-> req.mpesa_transaction_id,
     transaction_request |-> <<>>,
     transaction_response |-> <<>>,
     transaction_callback |-> <<>>,
     transaction_status |-> NULL,
     date_completed |-> <<>>,
     created_by |-> caller, updated_by |-> caller,
     active |-> TRUE]

PayResp(op, status, detail, id) ==
    [op |-> op, status |-> status, detail |-> detail, payment_id |-> id]

\* create_payment
CreatePayment(caller, req, t) ==
    /\ IF ValidPlans(plans, req.plan_id) = {}
       THEN /\ resp' = PayResp("create_payment", 400, "invalid_plan", 0)
            /\ UNCHANGED payments
       ELSE /\ Cardinality(payments) < MaxPayments
            /\ \E plan \in ValidPlans(plans, req.plan_id) :
                  payments' = payments \cup
                      {NewPayment(payments, req, caller, plan, t)}
            /\ resp' = PayResp("create_payment", 201, "created",
                               NewPaymentId(payments))
    /\ UNCHANGED <<users, profiles, matches, inflight, plans, stk>>

\* initiate_stk_payment up to the commit of the new row
InitiateStk(caller, req, t) ==
    /\ IF PhoneMissing(req)
       THEN /\ resp' = PayResp("initiate_stk", 400, "phone_required", 0)
            /\ UNCHANGED <<payments, stk>>
       ELSE IF ValidPlans(plans, req.plan_id) = {}
       THEN /\ resp' = PayResp("initiate_stk", 400, "invalid_plan", 0)
            /\ UNCHANGED <<payments, stk>>
       ELSE /\ Cardinality(payments) < MaxPayments
            /\ \E plan \in ValidPlans(plans, req.plan_id) :
                  payments' = payments \cup
                      {NewPayment(payments, req, caller, plan, t)}
            /\ stk' = stk \cup
                  {[pc |-> "push", payment_id |-> NewPaymentId(payments),
                    amount |-> req.amount, phone |-> req.phone_number,
                    checkout_id |-> NULL]}
            /\ resp' = PayResp("stk_insert", 0, "inserted", NewPaymentId(payments))
    /\ UNCHANGED <<users, profiles, matches, inflight, plans>>

\* the CheckoutRequestID the provider hands out for its n-th accepted push
ProviderIds == <<"c1", "c2", "c3", "c4">>

\* initiate_stk_push up to the provider's reply: missing settings or token
\* (500), a transport error (400), a refusal (non-200), or a 200 carrying a
\* CheckoutRequestID.  Every failure is logged by the handler, which answers
\* 201 with the row as stored.
StkPush(job) ==
    /\ job \in stk
    /\ job.pc = "push"
    /\ \E outcome \in {"not_configured", "exception", "refused", "accepted"} :
          IF outcome = "accepted"
          THEN /\ stk' = (stk \ {job}) \cup
                     {[job EXCEPT !.pc = "commit",
                                  !.checkout_id = ProviderIds[job.payment_id]]}
               /\ resp' = PayResp("stk_push", 200, outcome, job.payment_id)
          ELSE /\ stk' = stk \ {job}
               /\ resp' = PayResp("initiate_stk", 201, outcome, job.payment_id)
    /\ UNCHANGED <<users, profiles, matches, inflight, plans, payments>>

\* req_body and response_data of initiate_stk_push
StkRequestBody(job) ==
    [Amount |-> job.amount, PartyA |-> job.phone, PhoneNumber |-> job.phone,
     AccountReference |-> job.phone]

StkResponseData(job) ==
    [ResponseCode |-> "0", CheckoutRequestID |-> job.checkout_id]

\* initiate_stk_push after a 200: the request, the reply and the
\* CheckoutRequestID are stored on the row and committed
StkStoreKeeps(p, job) == p

StkStore(p, job) ==
    [p EXCEPT !.transaction_request = <<StkRequestBody(job)>>,
              !.transaction_response = <<StkResponseData(job)>>,
              !.mpesa_transaction_id =
                  IF Truthy(job.checkout_id) THEN job.checkout_id ELSE @,
              !.updated_by = p.created_by]

\* ... and the handler answers 201
StkCommit(job) ==
    /\ job \in stk
    /\ job.pc = "commit"
    /\ payments' = { IF p.payment_id = job.payment_id
                     THEN StkStore(p, job) ELSE p : p \in payments }
    /\ stk' = stk \ {job}
    /\ resp' = PayResp("initiate_stk", 201, "stored", job.payment_id)
    /\ UNCHANGED <<users, profiles, matches, inflight, plans>>

\* update_payment bodies (PaymentUpdate): an absent field is NULL (text) or <<>>
NoUpdate(by) ==
    [payment_ref |-> NULL, payment_date |-> <<>>, valid_until |-> <<>>,
     amount |-> <<>>, plan_id |-> NULL, mpesa_transaction_id |-> NULL,
     transaction_request |-> <<>>, transaction_response |-> <<>>,
     transaction_callback |-> <<>>, transaction_status |-> NULL,
     date_completed |-> <<>>, active |-> <<>>, updated_by |-> by]

PayUpdates(by) ==
    { [NoUpdate(by) EXCEPT !.mpesa_transaction_id = "c1"],
      [NoUpdate(by) EXCEPT !.plan_id = "p9"] }

\* the "is not None" assignments of update_payment
ApplyUpdate(p, u) ==
    [p EXCEPT
       !.payment_ref = IF u.payment_ref # NULL THEN u.payment_ref ELSE @,
       !.payment_date = IF u.payment_date # <<>> THEN u.payment_date[1] ELSE @,
       !.valid_until = IF u.valid_until # <<>> THEN u.valid_until[1] ELSE @,
       !.amount = IF u.amount # <<>> THEN u.amount[1] ELSE @,
       !.plan_id = IF u.plan_id # NULL THEN u.plan_id ELSE @,
       !.mpesa_transaction_id =
           IF u.mpesa_transaction_id # NULL THEN u.mpesa_transaction_id ELSE @,
       !.transaction_request =
           IF u.transaction_request # <<>> THEN u.transaction_request ELSE @,
       !.transaction_response =
           IF u.transaction_response # <<>> THEN u.transaction_response ELSE @,
       !.transaction_callback =
           IF u.transaction_callback # <<>> THEN u.transaction_callback ELSE @,
       !.transaction_status =
           IF u.transaction_status # NULL THEN u.transaction_status ELSE @,
       !.date_completed = IF u.date_completed # <<>> THEN u.date_completed ELSE @,
       !.active = IF u.active # <<>> THEN u.active[1] ELSE @,
       !.updated_by = u.updated_by]

\* the query of get_payment and update_payment: by id and owner
OwnPaymentsAnyOwner(ps, id, caller) == { p \in ps : p.payment_id = id }

OwnPayments(ps, id, caller) ==
    { p \in ps : p.payment_id = id /\ p.user_id = caller }

\* update_payment; payments.plan_id is a foreign key, so a plan_id naming no
\* plan fails the commit
UpdatePayment(caller, id, u) ==
    /\ IF OwnPayments(payments, id, caller) = {}
       THEN /\ resp' = PayResp("update_payment", 404, "not_found", id)
            /\ UNCHANGED payments
       ELSE IF u.plan_id # NULL /\ \A pl \in plans : pl.plan_id # u.plan_id
       THEN /\ resp' = PayResp("update_payment", 500, "integrity_error", id)
            /\ UNCHANGED payments
       ELSE /\ payments' = { IF p \in OwnPayments(payments, id, caller)
                             THEN ApplyUpdate(p, u) ELSE p : p \in payments }
            /\ resp' = PayResp("update_payment", 200, "updated", id)
    /\ UNCHANGED <<users, profiles, matches, inflight, plans, stk>>

\* get_payment
GetPayment(caller, id) ==
    /\ IF OwnPayments(payments, id, caller) = {}
       THEN resp' = PayResp("get_payment", 404, "not_found", id)
       ELSE resp' = PayResp("get_payment", 200, "found", id)
    /\ UNCHANGED <<users, profiles, matches, inflight, plans, payments, stk>>

\* ================================================================= webhook

TsValid   == <<"2","0","2","4","0","1","1","9","1","2","0","0","0","0">>
TsInvalid == <<"i","n","v","a","l","i","d">>

Item(name, value) == [Name |-> name, Value |-> value]

\* a provider-shaped event; ResultCode is <<>> for null, <<n>> for the number n
Event(rc, id, items) ==
    [has_body |-> TRUE, ResultCode |-> rc, CheckoutRequestID |-> id,
     Items |-> items]

\* the bodies POSTed to /payments/callback
CallbackEvents ==
    { [has_body |-> FALSE, ResultCode |-> <<>>, CheckoutRequestID |-> NULL,
       Items |-> <<>>],
      Event(<<1032>>, "c1", <<>>),
      Event(<<0>>, NULL, <<>>),
      Event(<<0>>, "c9", <<Item("Amount", 100)>>),
      Event(<<0>>, "c1", <<Item("MpesaReceiptNumber", "MP0")>>),
      Event(<<0>>, "c1", <<Item("Amount", 90), Item("MpesaReceiptNumber", "MP2"),
                           Item("TransactionDate", TsValid),
                           Item("PhoneNumber", "254712345678")>>),
      Event(<<0>>, "c1", <<Item("Amount", 100), Item("MpesaReceiptNumber", "MP1"),
                           Item("TransactionDate", TsInvalid)>>) }

\* body.get("stkCallback", {}).get("ResultCode")
ResultCodeOf(ev) == IF ev.has_body THEN ev.ResultCode ELSE <<>>

\* the "if result_code != 0" test
IsDeclinedNever(ev) == FALSE

IsDeclined(ev) == ResultCodeOf(ev) # <<0>>

\* the "if not checkout_request_id" test
IdMissingNever(ev) == FALSE

IdMissing(ev) == ~Truthy(ev.CheckoutRequestID)

\* one turn of the loop over CallbackMetadata.Item
ExtractStep(acc, it, t) ==
    IF it.Name = "Amount"
    THEN [acc EXCEPT !.amount = IF it.Value # 0 THEN it.Value ELSE 0]
    ELSE IF it.Name = "MpesaReceiptNumber"
    THEN [acc EXCEPT !.mpesa_code = IF Truthy(it.Value) THEN it.Value ELSE ""]
    ELSE IF it.Name = "TransactionDate"
    THEN (IF it.Value # <<>>
          THEN [acc EXCEPT !.transaction_date =
                               <<DarajaTimestampToDatetime(it.Value, t)>>]
          ELSE acc)
    ELSE acc

RECURSIVE Extract(_, _, _)
Extract(items, acc, t) ==
    IF items = <<>> THEN acc
    ELSE Extract(Tail(items), ExtractStep(acc, Head(items), t), t)

\* amount, mpesa_code and transaction_date after the loop
Extracted(ev, t) ==
    Extract(ev.Items, [amount |-> 0, mpesa_code |-> "", transaction_date |-> <<>>], t)

\* the lookup by CheckoutRequestID
FindByCheckout(ps, id) == { p \in ps : p.mpesa_transaction_id = id }

\* the plan lookup of the webhook: by id alone
CallbackPlansActiveOnly(ps, plan_id) ==
    { pl \in ps : pl.plan_id = plan_id /\ pl.active }

CallbackPlans(ps, plan_id) == { pl \in ps : pl.plan_id = plan_id }

\* the amount comparison of the webhook
SettledStatusStrict(amount, price) ==
    IF amount > price THEN "SUCCESSFUL" ELSE "PARTIALLY_PAID"

SettledStatus(amount, price) ==
    IF amount >= price THEN "SUCCESSFUL" ELSE "PARTIALLY_PAID"

\* the row the webhook commits for payment p
Resolved(p, ev, found, acc) ==
    LET q == [p EXCEPT !.transaction_callback = <<ev>>,
                       !.payment_ref = acc.mpesa_code,
                       !.date_completed = acc.transaction_date,
                       !.updated_by = p.created_by]
    IN IF found = {} THEN q
       ELSE LET plan == CHOOSE pl \in found : TRUE
                st == SettledStatus(acc.amount, plan.amount)
            IN [q EXCEPT !.transaction_status = st,
                         !.amount = IF st = "PARTIALLY_PAID" THEN acc.amount ELSE @]

\* the webhook's answer to the event; replay tells whether the row already
\* stored this very payload, notified what became of the notification
CbResp(status, body, ev, id, replay, notified) ==
    [op |-> "callback", status |-> status, body |-> body, event |-> ev,
     result_code |-> ResultCodeOf(ev), payment_id |-> id,
     replay |-> replay, notified |-> notified]

\* the notification at the end of the webhook: to the owner, when the owner
\* has a token; the delivery succeeds or fails, and a failure is dropped
PaymentNoticeAnyOwner(p) == {"sent", "failed"}

PaymentNotice(p) ==
    IF p.user_id \in Users /\ Truthy(FcmToken(p.user_id))
    THEN {"sent", "failed"} ELSE {"none"}

\* the webhook's answer after the notification block: a failure of the
\* delivery is caught and logged, and the answer is the one of a success
AfterNoticeSurfaced(notified) ==
    IF notified = "failed" THEN [status |-> 500, body |-> "error"]
    ELSE [status |-> 200, body |-> "success"]

AfterNotice(notified) == [status |-> 200, body |-> "success"]

\* daraja_callback
DarajaCallback(ev, t) ==
    /\ IF IsDeclined(ev)
       THEN /\ resp' = CbResp(200, "received", ev, 0, FALSE, "none")
            /\ UNCHANGED payments
       ELSE IF IdMissing(ev)
       THEN /\ resp' = CbResp(400, "error", ev, 0, FALSE, "none")
            /\ UNCHANGED payments
       ELSE IF FindByCheckout(payments, ev.CheckoutRequestID) = {}
       THEN /\ resp' = CbResp(404, "error", ev, 0, FALSE, "none")
            /\ UNCHANGED payments
       ELSE \E p \in FindByCheckout(payments, ev.CheckoutRequestID) :
               /\ payments' = (payments \ {p}) \cup
                     {Resolved(p, ev, CallbackPlans(plans, p.plan_id),
                               Extracted(ev, t))}
               /\ \E notified \in PaymentNotice(p) :
                     resp' = CbResp(AfterNotice(notified).status,
                                    AfterNotice(notified).body, ev, p.payment_id,
                                    p.transaction_callback = <<ev>>, notified)
    /\ UNCHANGED <<users, profiles, matches, inflight, plans, stk>>

\* ============================================================== coordinates

\* Texts are sequences of characters; an optional value is <<>> (None) or <<v>>.
\* Numbers of degrees are counted in thousandths, distances in metres.

\* str.strip() for blanks
RECURSIVE StripLeft(_)
StripLeft(s) ==
    IF s # <<>> /\ Head(s) = " " THEN StripLeft(Tail(s)) ELSE s

RECURSIVE StripRight(_)
StripRight(s) ==
    IF s # <<>> /\ s[Len(s)] = " "
    THEN StripRight(SubSeq(s, 1, Len(s) - 1)) ELSE s

Strip(s) == StripRight(StripLeft(s))

\* str.split(',')
RECURSIVE SplitComma(_)
SplitComma(s) ==
    IF \A i \in 1..Len(s) : s[i] # ","
    THEN <<s>>
    ELSE LET k == CHOOSE i \in 1..Len(s) :
                     s[i] = "," /\ \A j \in 1..(i - 1) : s[j] # ","
         IN <<SubSeq(s, 1, k - 1)>> \o SplitComma(SubSeq(s, k + 1, Len(s)))

IsDigits(s) == \A i \in 1..Len(s) : s[i] \in DOMAIN DigitOf

\* float(text) for decimal literals of at most three decimals: <<>> where
\* float raises ValueError, else <<the value in thousandths>>
FloatOf(text) ==
    LET s == Strip(text)
        neg == s # <<>> /\ Head(s) = "-"
        body == IF s # <<>> /\ Head(s) \in {"-", "+"} THEN Tail(s) ELSE s
        dots == { i \in 1..Len(body) : body[i] = "." }
        whole == IF dots = {} THEN body
                 ELSE SubSeq(body, 1, (CHOOSE i \in dots : TRUE) - 1)
        frac == IF dots = {} THEN <<>>
                ELSE SubSeq(body, (CHOOSE i \in dots : TRUE) + 1, Len(body))
        pad == SubSeq(frac \o <<"0", "0", "0">>, 1, 3)
        mag == DigitsValue(whole) * 1000 + DigitsValue(pad)
    IN IF \/ Cardinality(dots) > 1
          \/ ~IsDigits(whole) \/ ~IsDigits(frac)
          \/ Len(whole) + Len(frac) = 0
       THEN <<>>
       ELSE <<IF neg THEN 0 - mag ELSE mag>>

\* the literals float() turns into nan or an infinity
NonFinite(text) ==
    LET s == Strip(text)
        body == IF s # <<>> /\ Head(s) \in {"-", "+"} THEN Tail(s) ELSE s
    IN body \in { <<"n", "a", "n">>, <<"i", "n", "f">>,
                  <<"i", "n", "f", "i", "n", "i", "t", "y">> }

\* string_to_coordinates_tuple: None, or the pair (lat, lng); nan fails every
\* comparison of the range test and an infinity is out of range
StringToCoordinatesTupleNoRange(coord_str) ==
    IF coord_str = <<>> \/ Strip(coord_str[1]) = <<>>
    THEN <<>>
    ELSE LET parts == SplitComma(Strip(coord_str[1]))
         IN IF Len(parts) # 2 THEN <<>>
            ELSE IF FloatOf(parts[1]) = <<>> \/ FloatOf(parts[2]) = <<>>
            THEN <<>>
            ELSE << <<FloatOf(parts[1])[1], FloatOf(parts[2])[1]>> >>

StringToCoordinatesTuple(coord_str) ==
    IF coord_str = <<>> \/ Strip(coord_str[1]) = <<>>
    THEN <<>>
    ELSE LET parts == SplitComma(Strip(coord_str[1]))
         IN IF Len(parts) # 2 THEN <<>>
            ELSE IF NonFinite(parts[1]) \/ NonFinite(parts[2])
                    \/ FloatOf(parts[1]) = <<>> \/ FloatOf(parts[2]) = <<>>
            THEN <<>>
            ELSE LET lat == FloatOf(parts[1])[1]
                     lng == FloatOf(parts[2])[1]
                 IN IF lat < -90000 \/ lat > 90000
                       \/ lng < -180000 \/ lng > 180000
                    THEN <<>>
                    ELSE << <<lat, lng>> >>

Abs(n) == IF n < 0 THEN 0 - n ELSE n

\* haversine, for two points of one meridian or two points of the equator,
\* where it is the arc R * angle: 111195 m for each degree
Haversine(coord1, coord2) ==
    IF coord1[2] = coord2[2]
    THEN (Abs(coord1[1] - coord2[1]) * 111195) \div 1000
    ELSE (Abs(coord1[2] - coord2[2]) * 111195) \div 1000

\* string_to_coordinates_tuple applied to a text
CoordAlphabet == {"9", "1", ",", ".", "-", " ", "a"}

MaxCoordLen == 3

RECURSIVE TextsOfLength(_)
TextsOfLength(n) ==
    IF n = 0 THEN {<<>>}
    ELSE { <<c>> \o t : c \in CoordAlphabet, t \in TextsOfLength(n - 1) }

\* "91,0", "0,181", "1,2,3", "a,b", " -1.292, 36.821 ", "90,180",
\* "-90,-180", "90.001,0", "0,-180.001", "nan,0", "0,inf", "+1.5,.5"
CoordExamples ==
    { <<"9", "1", ",", "0">>, <<"0", ",", "1", "8", "1">>,
      <<"1", ",", "2", ",", "3">>, <<"a", ",", "b">>,
      <<" ", "-", "1", ".", "2", "9", "2", ",", " ", "3", "6", ".", "8", "2",
        "1", " ">>,
      <<"9", "0", ",", "1", "8", "0">>,
      <<"-", "9", "0", ",", "-", "1", "8", "0">>,
      <<"9", "0", ".", "0", "0", "1", ",", "0">>,
      <<"0", ",", "-", "1", "8", "0", ".", "0", "0", "1">>,
      <<"n", "a", "n", ",", "0">>, <<"0", ",", "i", "n", "f">>,
      <<"+", "1", ".", "5", ",", ".", "5">> }

CoordTexts ==
    CoordExamples \cup UNION { TextsOfLength(n) : n \in 0..MaxCoordLen }

ParseCoordinates(opt) ==
    /\ resp' = [op |-> "parse", status |-> 0, text |-> opt,
                result |-> StringToCoordinatesTuple(opt)]
    /\ UNCHANGED <<users, profiles, matches, inflight, plans, payments, stk>>

\* ================================================================= profiles

\* get_password_hash, and the rows of "users" the handlers below are called by
Hash(password) == <<"hash", password>>

FixtureUsers ==
    { [user_id |-> "u1", email |-> "e1", hashed_password |-> Hash("pw1"),
       active |-> TRUE],
      [user_id |-> "u2", email |-> "e2", hashed_password |-> Hash("pw2"),
       active |-> TRUE] }

\* get_current_active_user: the caller is a stored, active user
ActiveUser(caller) == \E u \in users : u.user_id = caller /\ u.active

\* ProfileCompletionRequest bodies
ProfileRequests ==
    { [phone_number |-> "ph1", gender |-> "MALE",
       date_of_birth |-> <<1990, 1, 1>>, bio |-> "a"],
      [phone_number |-> "ph2", gender |-> "FEMALE",
       date_of_birth |-> <<1995, 5, 15>>, bio |-> "b"] }

\* the first query of complete_profile: the phone number in another user's profile
PhoneTakenNever(ps, req, caller) == FALSE

PhoneTaken(ps, req, caller) ==
    \E p \in ps : p.phone_number = req.phone_number /\ p.user_id # caller

NewProfileId(ps) == Cardinality(ps) + 1

\* Profile(...) of complete_profile; online and active take their defaults
NewProfile(ps, req, caller) ==
    [profile_id |-> NewProfileId(ps),
     user_id |-> caller,
     phone_number |-> req.phone_number,
     gender |-> req.gender,
     date_of_birth |-> req.date_of_birth,
     bio |-> req.bio,
     online |-> TRUE,
     current_coordinates |-> <<>>,
     preferences |-> <<>>,
     created_by |-> caller, updated_by |-> caller,
     active |-> TRUE]

\* the assignments of the update branch of complete_profile
UpdatedProfile(p, req, caller) ==
    [p EXCEPT !.phone_number = req.phone_number,
              !.gender = req.gender,
              !.date_of_birth = req.date_of_birth,
              !.bio = req.bio,
              !.updated_by = caller]

\* uq_profile_user_id and uq_profile_phone_number, for the rows ps with row p
\* added or replacing the row of its profile_id
ProfileUniqueOk(ps, p) ==
    \A o \in ps :
       o.profile_id # p.profile_id
       => o.user_id # p.user_id /\ o.phone_number # p.phone_number

\* the status the route answers a returned profile with
CompleteStatus(outcome) == 201

ProfResp(op, status, w, outcome, id, caller, req) ==
    [op |-> op, status |-> status, worker |-> w, outcome |-> outcome,
     profile_id |-> id, caller |-> caller, req |-> req]

\* complete_profile up to its second SELECT: the 400, or the row found
CompleteBegin(w, caller, req) ==
    /\ ActiveUser(caller)
    /\ inflight[w] = Idle
    /\ IF PhoneTaken(profiles, req, caller)
       THEN /\ resp' = ProfResp("complete_profile", 400, w, "phone_taken", 0,
                                caller, req)
            /\ UNCHANGED inflight
       ELSE /\ \E found \in (IF \E p \in profiles : p.user_id = caller
                             THEN { p.profile_id : p \in
                                       { o \in profiles : o.user_id = caller } }
                             ELSE {0}) :
                 inflight' = [inflight EXCEPT ![w] =
                     [pc |-> "profile_commit", caller |-> caller, req |-> req,
                      existing |-> found]]
            /\ resp' = ProfResp("profile_select", 0, w, "pending", 0, caller, req)
    /\ UNCHANGED <<users, profiles, matches, plans, payments, stk>>

\* complete_profile from the branch on existing_profile to its return; a
\* commit that breaks a unique constraint raises IntegrityError
CompleteCommit(w) ==
    /\ inflight[w].pc = "profile_commit"
    /\ LET req == inflight[w].req
           caller == inflight[w].caller
           existing == inflight[w].existing
           old == { p \in profiles : p.profile_id = existing }
           new == IF existing # 0
                  THEN UpdatedProfile(CHOOSE p \in old : TRUE, req, caller)
                  ELSE NewProfile(profiles, req, caller)
       IN IF ~ProfileUniqueOk(profiles, new)
          THEN /\ resp' = ProfResp("complete_profile", 500, w, "integrity_error",
                                   0, caller, req)
               /\ UNCHANGED profiles
          ELSE /\ profiles' = (profiles \ old) \cup {new}
               /\ resp' = ProfResp("complete_profile",
                                   CompleteStatus(IF existing # 0 THEN "update"
                                                  ELSE "create"),
                                   w, IF existing # 0 THEN "update" ELSE "create",
                                   new.profile_id, caller, req)
    /\ inflight' = [inflight EXCEPT ![w] = Idle]
    /\ UNCHANGED <<users, matches, plans, payments, stk>>

\* ProfileLocationUpdate.coordinates: " -1.2, 36.8", "invalid", "91,181"
LocationTexts ==
    { <<" ", "-", "1", ".", "2", ",", " ", "3", "6", ".", "8">>,
      <<"i", "n", "v", "a", "l", "i", "d">>,
      <<"9", "1", ",", "1", "8", "1">> }

LocationProfileIds == 1..2

LocResp(status, detail, caller, id, coordinates) ==
    [op |-> "update_location", status |-> status, detail |-> detail,
     caller |-> caller, profile_id |-> id, coordinates |-> coordinates]

\* the ownership check of update_profile_location
OwnsProfileAlways(p, caller) == TRUE

OwnsProfile(p, caller) == p.user_id = caller

\* update_profile_location
UpdateLocation(caller, id, coordinates) ==
    /\ ActiveUser(caller)
    /\ LET found == { p \in profiles : p.profile_id = id }
       IN IF found = {}
          THEN /\ resp' = LocResp(404, "not_found", caller, id, coordinates)
               /\ UNCHANGED profiles
          ELSE IF \E p \in found : ~OwnsProfile(p, caller)
          THEN /\ resp' = LocResp(403, "forbidden", caller, id, coordinates)
               /\ UNCHANGED profiles
          ELSE IF StringToCoordinatesTuple(<<coordinates>>) = <<>>
          THEN /\ resp' = LocResp(422, "invalid_coordinates", caller, id,
                                  coordinates)
               /\ UNCHANGED profiles
          ELSE /\ profiles' =
                     { IF p \in found
                       THEN [p EXCEPT !.current_coordinates = <<coordinates>>,
                                      !.updated_by = caller]
                       ELSE p : p \in profiles }
               /\ resp' = LocResp(200, "location_updated", caller, id,
                                  coordinates)
    /\ UNCHANGED <<users, matches, inflight, plans, payments, stk>>

\* ====================================================================== map

\* date.today() of calc_profile_age
Today == <<2024, 6, 15>>

\* calc_profile_age: whole years from date_of_birth to today
CalcProfileAge(profile) ==
    IF profile.date_of_birth = <<>> THEN 0
    ELSE LET dob == profile.date_of_birth
             years == Today[1] - dob[1]
         IN IF Today[2] < dob[2] \/ (Today[2] = dob[2] /\ Today[3] < dob[3])
            THEN years - 1
            ELSE years

\* a preferences dict: each key is absent, <<>>, or present with a value, <<v>>
Dict(min_age, max_age, distance) ==
    [min_age |-> min_age, max_age |-> max_age, distance |-> distance]

\* the preferences used when a profile has none: 18 to 99 years, 50 km
DefaultPreferences == Dict(<<18>>, <<99>>, <<50000>>)

\* "not dict": no key is present
EmptyDict(dict) == \A key \in DOMAIN dict : dict[key] = <<>>

\* dict.get(key, default)
GetAlwaysDefault(dict, key, default) == default

Get(dict, key, default) == IF dict[key] = <<>> THEN default ELSE dict[key][1]

\* "x or default" for an optional dict: None and {} are falsy
OrDefault(opt) ==
    IF opt = <<>> \/ EmptyDict(opt[1]) THEN DefaultPreferences ELSE opt[1]

\* "not text" for an optional text: None and "" are falsy
NoText(opt) == opt = <<>> \/ opt[1] = <<>>

\* the query of get_map_profiles: the users joined with their profiles, of the
\* other gender, online, not the caller, profile and user active
MapCandidatesAnyOnline(us, ps, profile, caller) ==
    { u \in us :
        \E p \in ps :
           /\ p.user_id = u.user_id
           /\ p.gender # profile.gender
           /\ p.user_id # caller
           /\ p.active
           /\ u.active }

MapCandidates(us, ps, profile, caller) ==
    { u \in us :
        \E p \in ps :
           /\ p.user_id = u.user_id
           /\ p.gender # profile.gender
           /\ p.online
           /\ p.user_id # caller
           /\ p.active
           /\ u.active }

\* filter_out_profiles_outside_range
FilterOutProfilesOutsideRange(current_profile, map_profiles, ps, preferences) ==
    LET prefs == IF EmptyDict(preferences) THEN DefaultPreferences
                 ELSE preferences
        min_age == Get(prefs, "min_age", 18)
        max_age == Get(prefs, "max_age", 99)
        radius == Get(prefs, "distance", 50000)
        profile_coords ==
            StringToCoordinatesTuple(current_profile.current_coordinates)
    IN IF profile_coords = <<>> THEN {}
       ELSE { u \in map_profiles :
                \E p \in ps :
                   /\ p.user_id = u.user_id
                   /\ ~NoText(p.current_coordinates)
                   /\ StringToCoordinatesTuple(p.current_coordinates) # <<>>
                   /\ Haversine(profile_coords[1],
                         StringToCoordinatesTuple(p.current_coordinates)[1])
                         <= radius
                   /\ min_age <= CalcProfileAge(p)
                   /\ CalcProfileAge(p) <= max_age }

\* get_map_profiles; the answer lists the user_id of each profile returned
GetMapProfiles(caller) ==
    /\ ActiveUser(caller)
    /\ LET own == { p \in profiles : p.user_id = caller }
       IN IF own = {} \/ \A p \in own : NoText(p.current_coordinates)
          THEN resp' = [op |-> "map", status |-> 200, caller |-> caller,
                        map_profiles |-> {}]
          ELSE \E profile \in own :
                  resp' = [op |-> "map", status |-> 200, caller |-> caller,
                           map_profiles |->
                              { u.user_id : u \in
                                  FilterOutProfilesOutsideRange(
                                     profile,
                                     MapCandidates(users, profiles, profile,
                                                   caller),
                                     profiles, OrDefault(profile.preferences)) }]
    /\ UNCHANGED <<users, profiles, matches, inflight, plans, payments, stk>>

\* filter_out_profiles_outside_range applied to the whole pool: every stored
\* user, with no query before it
FilterPool(caller) ==
    /\ \E profile \in { p \in profiles : p.user_id = caller } :
          resp' = [op |-> "filter", status |-> 0, caller |-> caller,
                   map_profiles |->
                      { u.user_id : u \in
                          FilterOutProfilesOutsideRange(
                             profile, users, profiles,
                             OrDefault(profile.preferences)) }]
    /\ UNCHANGED <<users, profiles, matches, inflight, plans, payments, stk>>

\* ===================================================================== auth

\* verify_password: the stored hash is the hash of the password given
VerifyPasswordAlways(password, hashed_password) == TRUE

VerifyPassword(password, hashed_password) == hashed_password = Hash(password)

\* create_access_token: a token that names its subject
CreateAccessToken(data) == <<"jwt", data.sub>>

\* RegisterRequest and LoginRequest bodies
RegisterRequests ==
    { [email |-> e, password |-> pw] : e \in {"e1", "e2"}, pw \in {"pw1", "pw2"} }

LoginRequests ==
    { [email |-> e, password |-> pw] :
        e \in {"e1", "e2", "e3"}, pw \in {"pw1", "pw2"} }

NewUserId(us) ==
    IF \E u \in us : u.user_id = "u1" THEN "u2" ELSE "u1"

AuthResp(op, status, detail, headers, token, req) ==
    [op |-> op, status |-> status, detail |-> detail, headers |-> headers,
     access_token |-> token, email |-> req.email, password |-> req.password]

\* register
Register(req) ==
    /\ IF \E u \in users : u.email = req.email
       THEN /\ resp' = AuthResp("register", 400, "Email already registered",
                                NULL, <<>>, req)
            /\ UNCHANGED users
       ELSE /\ users' = users \cup
                  { [user_id |-> NewUserId(users), email |-> req.email,
                     hashed_password |-> Hash(req.password), active |-> TRUE] }
            /\ resp' = AuthResp("register", 201, NULL, NULL, <<>>, req)
    /\ UNCHANGED <<profiles, matches, inflight, plans, payments, stk>>

\* login
Login(req) ==
    /\ LET found == { u \in users : u.email = req.email }
       IN IF found = {}
          THEN resp' = AuthResp("login", 401, "Incorrect email or password",
                                "Bearer", <<>>, req)
          ELSE \E user \in found :
                 IF ~VerifyPassword(req.password, user.hashed_password)
                 THEN resp' = AuthResp("login", 401,
                                       "Incorrect email or password",
                                       "Bearer", <<>>, req)
                 ELSE IF ~user.active
                 THEN resp' = AuthResp("login", 400, "Inactive user", NULL,
                                       <<>>, req)
                 ELSE resp' = AuthResp("login", 200, NULL, NULL,
                                       <<CreateAccessToken(
                                            [sub |-> user.email])>>, req)
    /\ UNCHANGED <<users, profiles, matches, inflight, plans, payments, stk>>

\* ==================================================================== init
Init ==
    /\ users = {}
    /\ profiles = {}
    /\ matches = {}
    /\ inflight = [w \in Workers |-> Idle]
    /\ plans = {}
    /\ payments = {}
    /\ stk = {}
    /\ resp = [op |-> "none", status |-> 0]

NextMatch ==
    \/ \E w \in Workers, c \in Callers, r \in MatchRequests : MatchBegin(w, c, r)
    \/ \E w \in Workers : MatchCommit(w)
    \/ \E w \in Workers : RunTask(w)

SpecMatch == Init /\ [][NextMatch]_vars

\* the users who pay in SpecPay: u1, who has a delivery token
PayCallers == {"u1"}

NextPay ==
    \/ \E c \in PayCallers, r \in PlanRequests : CreatePlan(c, r)
    \/ \E id \in {"p1", "p2"} : DeactivatePlan(id)
    \/ \E c \in PayCallers, r \in PayRequests, t \in CreateTimes :
          CreatePayment(c, r, t)
    \/ \E c \in PayCallers, r \in PayRequests, t \in CreateTimes :
          InitiateStk(c, r, t)
    \/ \E job \in stk : StkPush(job)
    \/ \E job \in stk : StkCommit(job)
    \/ \E c \in PayCallers, id \in 1..MaxPayments :
          \E u \in PayUpdates(c) : UpdatePayment(c, id, u)
    \/ \E ev \in CallbackEvents, t \in Clock : DarajaCallback(ev, t)

SpecPay == Init /\ [][NextPay]_vars

\* the payment handlers again, with two owners, reads, and PATCH bodies that
\* carry valid_until or transaction_status
PatchCallers == {"u1", "u2"}

PatchUpdates(by) ==
    { [NoUpdate(by) EXCEPT !.valid_until = <<<<2030, 1, 1, 0, 0, 0>>>>],
      [NoUpdate(by) EXCEPT !.transaction_status = "SUCCESSFUL"] }

PatchRequests == { r \in PayRequests : Truthy(r.phone_number) }

PatchEvents ==
    { Event(<<1032>>, "c1", <<>>),
      Event(<<0>>, "c1", <<Item("MpesaReceiptNumber", "MP0")>>) }

NextPatch ==
    \/ \E c \in PayCallers, r \in PlanRequests : CreatePlan(c, r)
    \/ \E id \in {"p1", "p2"} : DeactivatePlan(id)
    \/ \E c \in PatchCallers, r \in PatchRequests, t \in CreateTimes :
          CreatePayment(c, r, t)
    \/ \E c \in PatchCallers, r \in PatchRequests, t \in CreateTimes :
          InitiateStk(c, r, t)
    \/ \E job \in stk : StkPush(job)
    \/ \E job \in stk : StkCommit(job)
    \/ \E c \in PatchCallers, id \in 1..MaxPayments :
          \E u \in PatchUpdates(c) : UpdatePayment(c, id, u)
    \/ \E c \in PatchCallers, id \in 1..MaxPayments : GetPayment(c, id)
    \/ \E ev \in PatchEvents, t \in CreateTimes : DarajaCallback(ev, t)

SpecPatch == Init /\ [][NextPatch]_vars

\* the profile handlers, called by the two stored users
InitProfile ==
    /\ users = FixtureUsers
    /\ profiles = {}
    /\ matches = {}
    /\ inflight = [w \in Workers |-> Idle]
    /\ plans = {}
    /\ payments = {}
    /\ stk = {}
    /\ resp = [op |-> "none", status |-> 0]

NextProfile ==
    \/ \E w \in Workers, c \in Callers, r \in ProfileRequests :
          CompleteBegin(w, c, r)
    \/ \E w \in Workers : CompleteCommit(w)
    \/ \E c \in Callers, id \in LocationProfileIds, s \in LocationTexts :
          UpdateLocation(c, id, s)

SpecProfile == InitProfile /\ [][NextProfile]_vars

\* the rows of the map tests: the requester u1 at the origin of the equator,
\* candidates 0.3 and 0.6 degrees east of it (33 km and 67 km)
Origin == <<"0", ",", "0">>

Near == <<"0", ",", "0", ".", "3">>

Far == <<"0", ",", "0", ".", "6">>

Invalid == <<"i", "n", "v", "a", "l", "i", "d">>

MapProfile(id, user, phone, gender, dob, online, coords, prefs, active) ==
    [profile_id |-> id, user_id |-> user, phone_number |-> phone,
     gender |-> gender, date_of_birth |-> dob, bio |-> "a",
     online |-> online, current_coordinates |-> coords,
     preferences |-> prefs, created_by |-> user, updated_by |-> user,
     active |-> active]

MapPreferences ==
    { <<>>,
      <<Dict(<<>>, <<>>, <<>>)>>,
      <<Dict(<<25>>, <<>>, <<>>)>>,
      <<Dict(<<25>>, <<40>>, <<100000>>)>> }

RequesterProfiles ==
    { MapProfile(1, "u1", "ph1", "MALE", <<1990, 1, 1>>, TRUE, c, p, TRUE) :
        c \in { <<>>, << <<>> >>, <<Invalid>>, <<Origin>> },
        p \in MapPreferences }

\* dates of birth around the limits 18, 25, 40 and 99 on Today
MapBirthDates ==
    { <<1994, 1, 1>>, <<2006, 6, 15>>, <<2006, 6, 16>>, <<1999, 6, 15>>,
      <<1999, 6, 16>>, <<1984, 1, 1>>, <<1983, 6, 15>>, <<1925, 6, 15>>,
      <<1924, 6, 16>>, <<1924, 6, 15>> }

CandidateProfiles(id, user, phone) ==
    { MapProfile(id, user, phone, "FEMALE", dob, TRUE, <<Near>>, <<>>, TRUE) :
        dob \in MapBirthDates }
    \cup
    { MapProfile(id, user, phone, "FEMALE", <<1994, 1, 1>>, TRUE, c, <<>>,
                 TRUE) :
        c \in { <<>>, << <<>> >>, <<Invalid>>, <<Far>> } }
    \cup
    { MapProfile(id, user, phone, "MALE", <<1994, 1, 1>>, TRUE, <<Near>>,
                 <<>>, TRUE),
      MapProfile(id, user, phone, "FEMALE", <<1994, 1, 1>>, FALSE, <<Near>>,
                 <<>>, TRUE),
      MapProfile(id, user, phone, "FEMALE", <<1994, 1, 1>>, TRUE, <<Near>>,
                 <<>>, FALSE) }

MapUser(user, email, active) ==
    [user_id |-> user, email |-> email, hashed_password |-> Hash("pw1"),
     active |-> active]

MapCallers == {"u1", "u2", "u3"}

InitMap ==
    /\ \E a \in BOOLEAN :
          users = { MapUser("u1", "e1", TRUE), MapUser("u2", "e2", a),
                    MapUser("u3", "e3", TRUE) }
    /\ \E r \in {{}} \cup { {p} : p \in RequesterProfiles },
          c2 \in {{}} \cup { {p} : p \in CandidateProfiles(2, "u2", "ph2") },
          c3 \in { {}, { MapProfile(3, "u3", "ph3", "FEMALE", <<1994, 1, 1>>,
                                    TRUE, <<Far>>, <<>>, TRUE) } } :
          /\ profiles = r \cup c2 \cup c3
    /\ matches = {}
    /\ inflight = [w \in Workers |-> Idle]
    /\ plans = {}
    /\ payments = {}
    /\ stk = {}
    /\ resp = [op |-> "none", status |-> 0]

NextMap == \E c \in MapCallers : GetMapProfiles(c)

SpecMap == InitMap /\ [][NextMap]_vars

NextFilter == \E c \in MapCallers : FilterPool(c)

SpecFilter == InitMap /\ [][NextFilter]_vars

NextCoords ==
    \/ ParseCoordinates(<<>>)
    \/ \E text \in CoordTexts : ParseCoordinates(<<text>>)

SpecCoords == Init /\ [][NextCoords]_vars

\* a store that is empty or holds the user e1, active or not
InitAuth ==
    /\ users \in
          {{}} \cup
          { { [user_id |-> "u1", email |-> "e1",
               hashed_password |-> Hash("pw1"), active |-> a] } :
            a \in BOOLEAN }
    /\ profiles = {}
    /\ matches = {}
    /\ inflight = [w \in Workers |-> Idle]
    /\ plans = {}
    /\ payments = {}
    /\ stk = {}
    /\ resp = [op |-> "none", status |-> 0]

NextAuth ==
    \/ \E r \in RegisterRequests : Register(r)
    \/ \E r \in LoginRequests : Login(r)

SpecAuth == InitAuth /\ [][NextAuth]_vars

\* the operations that notify, side by side: u2 opens a match with u1 and
\* writes to it, u1 pays by STK push and the provider calls back; u1 has a
\* delivery token
NotifyRequests ==
    { r \in MatchRequests :
        r.my_id = "u2" /\ Truthy(r.last_message) /\ Truthy(r.sent_by) }

NotifyPlans == { r \in PlanRequests : r.active }

NextNotify ==
    \/ \E w \in Workers, r \in NotifyRequests : MatchBegin(w, "u2", r)
    \/ \E w \in Workers : MatchCommit(w)
    \/ \E w \in Workers : RunTask(w)
    \/ \E r \in NotifyPlans : CreatePlan("u1", r)
    \/ \E r \in PatchRequests, t \in CreateTimes : InitiateStk("u1", r, t)
    \/ \E job \in stk : StkPush(job)
    \/ \E job \in stk : StkCommit(job)
    \/ \E ev \in PatchEvents, t \in CreateTimes : DarajaCallback(ev, t)

SpecNotify == Init /\ [][NextNotify]_vars

\* the payment handlers with a client amount below the plan's price, and
\* webhooks that settle 90 or carry no Amount
AmountRequests ==
    { [r EXCEPT !.amount = a] : r \in PatchRequests, a \in {50, 100} }

AmountEvents ==
    { Event(<<0>>, "c1", <<Item("Amount", 90),
                           Item("MpesaReceiptNumber", "MP2")>>),
      Event(<<0>>, "c1", <<Item("MpesaReceiptNumber", "MP0")>>),
      Event(<<0>>, "c2", <<Item("Amount", 100)>>) }

NextAmount ==
    \/ \E r \in NotifyPlans : CreatePlan("u1", r)
    \/ \E r \in AmountRequests, t \in CreateTimes : InitiateStk("u1", r, t)
    \/ \E job \in stk : StkPush(job)
    \/ \E job \in stk : StkCommit(job)
    \/ \E ev \in AmountEvents, t \in CreateTimes : DarajaCallback(ev, t)

SpecAmount == Init /\ [][NextAmount]_vars

Next == NextMatch \/ NextPay \/ NextPatch \/ NextProfile \/ NextMap \/ NextAuth
        \/ NextNotify \/ NextFilter \/ NextCoords \/ NextAmount

Spec == Init /\ [][Next]_vars

\* ================================================================== claims

\* C1: after any match upserts, however interleaved, the store holds at most
\* one Match row for each (my_id, partner_id, thread_id)
C1_OneRowPerKey ==
    \A m1 \in matches, m2 \in matches : SameKey(m1, m2) => m1 = m2

\* a second insert for a stored key reached the commit and lost to the constraint
C1_Witness ==
    /\ resp.op = "match_upsert"
    /\ resp.outcome = "integrity_error"
    /\ \E m \in matches : SameKey(m, resp.req)

\* C2: an upsert whose my_id is not the caller's id is answered 403, stores
\* or changes no Match row and schedules no notification
C2_ForbiddenChangesNothing ==
    [][ (resp'.op \in {"match_select", "match_upsert"}
         /\ resp'.req.my_id # resp'.caller)
        => (/\ resp'.status = 403
            /\ matches' = matches
            /\ inflight' = inflight) ]_vars

C2_Witness ==
    /\ resp.op = "match_upsert"
    /\ resp.status = 403
    /\ resp.req.my_id # resp.caller
    /\ matches # {}

\* C3: an upsert that found a row for its key overwrites last_message,
\* last_message_date, sent_by and updated_by with the request's values, keeps
\* match_id, my_id, partner_id, thread_id, created_by and active, and leaves
\* every other row as it was
C3_UpdateFrame ==
    [][ (resp'.op = "match_upsert" /\ resp'.outcome = "update")
        => LET req == resp'.req
               id  == resp'.match_id
           IN /\ Cardinality(matches') = Cardinality(matches)
              /\ \A m \in matches :
                    IF m.match_id = id
                    THEN /\ SameKey(m, req)
                         /\ \E n \in matches' :
                               /\ n.match_id = id
                               /\ n.last_message = req.last_message
                               /\ n.last_message_date = req.last_message_date
                               /\ n.sent_by = req.sent_by
                               /\ n.updated_by = resp'.caller
                               /\ n.my_id = m.my_id
                               /\ n.partner_id = m.partner_id
                               /\ n.thread_id = m.thread_id
                               /\ n.created_by = m.created_by
                               /\ n.active = m.active
                    ELSE m \in matches'
              /\ \E m \in matches : m.match_id = id ]_vars

\* an update has replaced a stored message and sender, beside an untouched row
C3_Witness ==
    /\ resp.op = "match_upsert"
    /\ resp.outcome = "update"
    /\ \E m \in matches :
          /\ m.match_id = resp.match_id
          /\ m.last_message = "yo"
          /\ m.sent_by = "u2"
    /\ Cardinality(matches) = 2

\* ------------------------------------------------------- webhook claims

\* the payment the last webhook resolved, before and after the step
CbBefore == { p \in payments : p.payment_id = resp'.payment_id }

CbAfter == { q \in payments' : q.payment_id = resp'.payment_id }

\* a step in which the webhook resolved a payment
CbSuccessStep ==
    /\ resp'.op = "callback"
    /\ resp'.status = 200
    /\ resp'.body = "success"

\* the settled amount an event carries: its Amount item's value, 0 without one
SettledAmount(ev) ==
    IF \E i \in 1..Len(ev.Items) : ev.Items[i].Name = "Amount"
    THEN LET last == CHOOSE i \in 1..Len(ev.Items) :
                        /\ ev.Items[i].Name = "Amount"
                        /\ \A j \in (i + 1)..Len(ev.Items) :
                              ev.Items[j].Name # "Amount"
         IN ev.Items[last].Value
    ELSE 0

\* C4: a zero-code webhook matching a payment whose plan exists sets the
\* status SUCCESSFUL and keeps the amount when the settled amount reaches the
\* plan's price, and sets PARTIALLY_PAID and stores the settled amount when it
\* does not; an event without an Amount item settles 0
C4_SettledVsPrice ==
    [][ CbSuccessStep =>
        \A p \in CbBefore, pl \in plans :
           pl.plan_id = p.plan_id =>
              \E q \in CbAfter :
                 IF SettledAmount(resp'.event) >= pl.amount
                 THEN /\ q.transaction_status = "SUCCESSFUL"
                      /\ q.amount = p.amount
                 ELSE /\ q.transaction_status = "PARTIALLY_PAID"
                      /\ q.amount = SettledAmount(resp'.event) ]_vars

\* an event without an Amount item has left a payment partially paid with 0,
\* beside a payment settled at the plan's price
C4_Witness ==
    /\ resp.op = "callback"
    /\ resp.body = "success"
    /\ \E p \in payments :
          /\ p.payment_id = resp.payment_id
          /\ p.amount = 0
          /\ p.transaction_status = "PARTIALLY_PAID"
    /\ \E p \in payments :
          /\ p.amount = 100
          /\ p.transaction_status = "SUCCESSFUL"

\* C5 (as claimed): once a webhook has set a payment's status, a later webhook
\* for the same transaction id changes neither its status nor its amount
C5_ResolvedOnce ==
    [][ CbSuccessStep =>
        \A p \in CbBefore :
           (/\ p.transaction_callback # <<>>
            /\ p.transaction_status \in {"SUCCESSFUL", "PARTIALLY_PAID"})
           => \E q \in CbAfter :
                 /\ q.transaction_status = p.transaction_status
                 /\ q.amount = p.amount ]_vars

\* is the text YYYYMMDDHHMMSS naming an instant of the calendar
IsTimestamp(s) ==
    /\ Len(s) >= 14
    /\ \A i \in 1..14 : s[i] \in DOMAIN DigitOf
    /\ LET n(a, b) == DigitsValue(SubSeq(s, a, b))
       IN /\ n(1, 4) >= 1
          /\ n(5, 6) \in 1..12
          /\ n(7, 8) >= 1 /\ n(7, 8) <= DaysInMonth(n(1, 4), n(5, 6))
          /\ n(9, 10) <= 23 /\ n(11, 12) <= 59 /\ n(13, 14) <= 59

\* every TransactionDate the event carries is empty or a timestamp
DatesParse(ev) ==
    \A i \in 1..Len(ev.Items) :
       ev.Items[i].Name = "TransactionDate" =>
          (ev.Items[i].Value = <<>> \/ IsTimestamp(ev.Items[i].Value))

\* the second of two deliveries in a row of one event to one payment
CbReplayStep ==
    /\ CbSuccessStep
    /\ resp'.replay
    /\ resp.op = "callback"
    /\ resp.body = "success"
    /\ resp.payment_id = resp'.payment_id

\* C6 (as claimed): the second of two deliveries in a row of one zero-code
\* event leaves status, amount, payment_ref, the stored payload and the
\* completion timestamp as the first left them
C6_ReplaySameFields ==
    [][ CbReplayStep =>
        \A p \in CbBefore :
           \E q \in CbAfter :
              /\ q.transaction_status = p.transaction_status
              /\ q.amount = p.amount
              /\ q.payment_ref = p.payment_ref
              /\ q.transaction_callback = p.transaction_callback
              /\ q.date_completed = p.date_completed ]_vars

\* C6 (amended): the second delivery leaves status, amount, payment_ref and
\* the stored payload as the first left them, and the completion timestamp
\* too when the event's TransactionDate parses; when it does not, each
\* delivery stores the time at which it ran
C6_ReplaySameUnlessBadDate ==
    [][ CbReplayStep =>
        \A p \in CbBefore :
           \E q \in CbAfter :
              /\ q.transaction_status = p.transaction_status
              /\ q.amount = p.amount
              /\ q.payment_ref = p.payment_ref
              /\ q.transaction_callback = p.transaction_callback
              /\ DatesParse(p.transaction_callback[1])
                    => q.date_completed = p.date_completed
              /\ ~DatesParse(p.transaction_callback[1])
                    => \E t \in Clock : q.date_completed = <<NowDT(t)>> ]_vars

\* an event with a well-formed TransactionDate was delivered twice in a row
C6_Witness ==
    /\ resp.op = "callback"
    /\ resp.body = "success"
    /\ resp.replay
    /\ \E p \in payments :
          /\ p.payment_id = resp.payment_id
          /\ p.date_completed = <<<<2024, 1, 19, 12, 0, 0>>>>
          /\ p.transaction_status = "PARTIALLY_PAID"

\* C7: a webhook whose result code is not 0, or that has no Body (result
\* code null), is answered 200 "received" with that result code, changes no
\* Payment and sends no notification
C7_DeclinedChangesNothing ==
    [][ (/\ resp'.op = "callback"
         /\ ~resp'.event.has_body \/ resp'.event.ResultCode # <<0>>)
        => /\ resp'.status = 200
           /\ resp'.body = "received"
           /\ resp'.result_code = (IF resp'.event.has_body
                                   THEN resp'.event.ResultCode ELSE <<>>)
           /\ resp'.notified = "none"
           /\ payments' = payments ]_vars

\* a declined event named the transaction id of a stored payment whose owner
\* has a delivery token
C7_Witness ==
    /\ resp.op = "callback"
    /\ resp.body = "received"
    /\ resp.result_code = <<1032>>
    /\ \E p \in payments :
          /\ p.mpesa_transaction_id = "c1"
          /\ Truthy(FcmToken(p.user_id))

\* C8: a zero-code webhook is answered 400 when it carries no correlation id
\* and 404 when its id matches no Payment; in both no row of any table
\* changes and no notification is sent
C8_MalformedOrUnknown ==
    [][ (/\ resp'.op = "callback"
         /\ resp'.event.has_body
         /\ resp'.event.ResultCode = <<0>>)
        => /\ resp'.event.CheckoutRequestID \in {NULL, ""}
              => /\ resp'.status = 400
                 /\ resp'.notified = "none"
                 /\ UNCHANGED <<users, profiles, matches, plans, payments, stk>>
           /\ (/\ resp'.event.CheckoutRequestID \notin {NULL, ""}
               /\ \A p \in payments :
                     p.mpesa_transaction_id # resp'.event.CheckoutRequestID)
              => /\ resp'.status = 404
                 /\ resp'.notified = "none"
                 /\ UNCHANGED <<users, profiles, matches, plans, payments, stk>> ]_vars

\* an event without correlation id arrived while a payment without
\* transaction id was stored
C8_Witness ==
    /\ resp.op = "callback"
    /\ resp.status = 400
    /\ \E p \in payments : p.mpesa_transaction_id = NULL
    /\ \E p \in payments : p.mpesa_transaction_id = "c1"

\* C9: for a payment whose plan has been deactivated, the webhook commits the
\* row it would commit were the plan active: status and amount follow the
\* settled amount and the plan's price
C9_InactivePlanResolves ==
    [][ CbSuccessStep =>
        \A p \in CbBefore, pl \in plans :
           (pl.plan_id = p.plan_id /\ ~pl.active) =>
              \E q \in CbAfter, t \in Clock :
                 /\ q = Resolved(p, resp'.event,
                                 {[pl EXCEPT !.active = TRUE]},
                                 Extracted(resp'.event, t))
                 /\ q.transaction_status =
                       IF SettledAmount(resp'.event) >= pl.amount
                       THEN "SUCCESSFUL" ELSE "PARTIALLY_PAID" ]_vars

\* the webhook has just resolved a payment whose plan is inactive
C9_Witness ==
    /\ resp.op = "callback"
    /\ resp.body = "success"
    /\ \E p \in payments, pl \in plans :
          /\ p.payment_id = resp.payment_id
          /\ pl.plan_id = p.plan_id
          /\ ~pl.active
          /\ p.transaction_status = "SUCCESSFUL"

\* --------------------------------------------------- payment creation

\* no active plan carries the request's plan_id
PlanInvalid(req) ==
    ~\E pl \in plans : pl.plan_id = req.plan_id /\ pl.active

\* C10: a create or initiate-stk request is answered 400 when its plan_id
\* names no plan or an inactive one, initiate-stk also when phone_number is
\* absent; a request answered 400 stores no Payment and starts no provider call
C10_RejectedCreatesNothing ==
    [][ resp'.op \in {"create_payment", "initiate_stk", "stk_insert"} =>
        \A c \in PayCallers, r \in PayRequests, t \in CreateTimes :
           /\ (CreatePayment(c, r, t) /\ PlanInvalid(r))
                 => resp'.status = 400
           /\ (InitiateStk(c, r, t)
               /\ (PlanInvalid(r) \/ r.phone_number \in {NULL, ""}))
                 => resp'.status = 400
           /\ ((CreatePayment(c, r, t) \/ InitiateStk(c, r, t))
               /\ resp'.status = 400)
                 => /\ payments' = payments
                    /\ stk' = stk ]_vars

\* an initiate-stk request with a phone number named an inactive plan
C10_Witness ==
    /\ resp.op = "initiate_stk"
    /\ resp.status = 400
    /\ resp.detail = "invalid_plan"
    /\ \E pl \in plans : pl.plan_id = "p1" /\ ~pl.active

\* C11: once initiate-stk has stored the Payment the row stays stored; when
\* the provider adapter fails (missing configuration, exception, a non-200
\* reply) the request is answered 201 and no Payment changes; when it
\* succeeds the transaction id, request and reply are set from the provider's
\* reply and nothing else changes
C11_RowSurvivesAdapter ==
    [][ /\ \A job \in stk' : \E q \in payments' : q.payment_id = job.payment_id
        /\ (/\ resp'.op = "initiate_stk"
            /\ resp'.detail \in {"not_configured", "exception", "refused"})
           => /\ resp'.status = 201
              /\ payments' = payments
              /\ \E q \in payments : q.payment_id = resp'.payment_id
        /\ (resp'.op = "initiate_stk" /\ resp'.detail = "stored")
           => /\ resp'.status = 201
              /\ \E job \in stk, p \in payments, q \in payments' :
                    /\ job.payment_id = resp'.payment_id
                    /\ p.payment_id = job.payment_id
                    /\ q.payment_id = job.payment_id
                    /\ q.mpesa_transaction_id = job.checkout_id
                    /\ q.transaction_request = <<StkRequestBody(job)>>
                    /\ q.transaction_response = <<StkResponseData(job)>>
                    /\ q = [p EXCEPT
                              !.mpesa_transaction_id = q.mpesa_transaction_id,
                              !.transaction_request = q.transaction_request,
                              !.transaction_response = q.transaction_response,
                              !.updated_by = p.created_by]
                    /\ payments' \ {q} = payments \ {p} ]_vars

\* the provider refused a push and the payment is stored as it was created
C11_Witness ==
    /\ resp.op = "initiate_stk"
    /\ resp.status = 201
    /\ resp.detail = "refused"
    /\ \E p \in payments :
          /\ p.payment_id = resp.payment_id
          /\ p.mpesa_transaction_id = NULL
          /\ p.transaction_request = <<>>
          /\ p.transaction_response = <<>>
    /\ \E p \in payments : p.mpesa_transaction_id = "c1"

\* ------------------------------------------------- payment columns

\* C12 (as claimed): valid_until of a new Payment is its payment_date plus
\* the plan's months, and no later step changes the valid_until of a stored
\* Payment
C12_ValidUntilFixed ==
    [][ /\ \A p \in payments :
             \E q \in payments' :
                /\ q.payment_id = p.payment_id
                /\ q.valid_until = p.valid_until
        /\ \A q \in payments' :
             (\A p \in payments : p.payment_id # q.payment_id)
             => \E pl \in plans :
                   /\ pl.plan_id = q.plan_id
                   /\ q.valid_until = AddMonths(q.payment_date, pl.months) ]_vars

\* a step that gives a status to a Payment that had none
GivesStatus(p, q) ==
    /\ q.payment_id = p.payment_id
    /\ p.transaction_status = NULL
    /\ q.transaction_status # NULL

\* the step is a zero-code webhook that resolved Payment p
ResolvedByWebhook(p) ==
    /\ CbSuccessStep
    /\ resp'.event.ResultCode = <<0>>
    /\ resp'.event.CheckoutRequestID = p.mpesa_transaction_id
    /\ resp'.payment_id = p.payment_id

\* C13 (as claimed): a Payment is stored without status and only a zero-code
\* webhook matching its transaction id gives it one
C13_StatusOnlyByWebhook ==
    [][ /\ \A q \in payments' :
             (\A p \in payments : p.payment_id # q.payment_id)
             => q.transaction_status = NULL
        /\ \A p \in payments, q \in payments' :
             GivesStatus(p, q) => ResolvedByWebhook(p) ]_vars

\* C13 (amended): a Payment is stored without status, and the only steps that
\* give it one are a zero-code webhook matching its transaction id and a PATCH
\* by its owner whose body carries transaction_status
C13_StatusByWebhookOrPatch ==
    [][ /\ \A q \in payments' :
             (\A p \in payments : p.payment_id # q.payment_id)
             => q.transaction_status = NULL
        /\ \A p \in payments, q \in payments' :
             GivesStatus(p, q)
             => \/ ResolvedByWebhook(p)
                \/ /\ resp'.op = "update_payment"
                   /\ resp'.status = 200
                   /\ \E u \in PatchUpdates(p.user_id) :
                         /\ u.transaction_status = q.transaction_status
                         /\ UpdatePayment(p.user_id, p.payment_id, u) ]_vars

\* the owner's PATCH has given a status to a Payment no webhook has touched,
\* beside a Payment a webhook has resolved
C13_Witness ==
    /\ resp.op = "update_payment"
    /\ resp.status = 200
    /\ \E p \in payments :
          /\ p.payment_id = resp.payment_id
          /\ p.transaction_status = "SUCCESSFUL"
          /\ p.transaction_callback = <<>>
    /\ \E p \in payments :
          /\ p.transaction_status = "PARTIALLY_PAID"
          /\ p.transaction_callback # <<>>

\* C18: a GET or PATCH of a payment_id that another user owns is answered
\* 404 with the body of a payment_id that does not exist, and changes no
\* Payment
C18_ForeignPaymentHidden ==
    [][ resp'.op \in {"get_payment", "update_payment"} =>
        \A c \in PatchCallers, id \in 1..MaxPayments :
           (/\ \E p \in payments : p.payment_id = id /\ p.user_id # c
            /\ \/ GetPayment(c, id)
               \/ \E u \in PatchUpdates(c) : UpdatePayment(c, id, u))
           => /\ resp'.status = 404
              /\ resp' = PayResp(resp'.op, 404, "not_found", id)
              /\ payments' = payments ]_vars

\* a PATCH named a stored payment of another user
C18_Witness ==
    /\ resp.op = "update_payment"
    /\ resp.status = 404
    /\ \E p \in payments :
          /\ p.payment_id = resp.payment_id
          /\ p.user_id = "u1"
    /\ \E p \in payments : p.user_id = "u2"

\* ------------------------------------------------- match notifications

\* the task the upsert of the last step left scheduled, of the given kind
Scheduled(kind) ==
    /\ inflight'[resp'.worker].pc = "task"
    /\ inflight'[resp'.worker].kind = kind

\* C20: an upsert schedules the match-created notification exactly when it
\* created the match, and a chat notification only when it updated a match
\* and its request carried a message; an upsert that creates a match with a
\* last_message schedules no chat notification
C20_NotificationByPath ==
    [][ resp'.op = "match_upsert" =>
        /\ Scheduled("match") <=> resp'.outcome = "create"
        /\ Scheduled("chat") => /\ resp'.outcome = "update"
                                /\ resp'.req.last_message \notin {NULL, ""}
        /\ ~(Scheduled("match") /\ Scheduled("chat"))
        /\ (resp'.outcome = "create" /\ resp'.req.last_message \notin {NULL, ""})
           => ~Scheduled("chat") ]_vars

\* a match was created by a request that carried a message
C20_Witness ==
    /\ resp.op = "match_upsert"
    /\ resp.outcome = "create"
    /\ resp.req.last_message = "hi"
    /\ inflight[resp.worker].pc = "task"
    /\ inflight[resp.worker].kind = "match"

\* ------------------------------------------------------------ profiles

\* the texts among LocationTexts that are no coordinates: "invalid", "91,181"
InvalidTexts ==
    { <<"i", "n", "v", "a", "l", "i", "d">>,
      <<"9", "1", ",", "1", "8", "1">> }

C16_UpsertByUser ==
    [][ /\ \A p1, p2 \in profiles' : p1.user_id = p2.user_id => p1 = p2
        /\ (resp'.op = "complete_profile" /\ resp'.outcome = "update")
           => /\ resp'.status = 200
              /\ \E p \in profiles :
                    /\ p.user_id = resp'.caller
                    /\ profiles' = (profiles \ {p}) \cup
                          {[p EXCEPT
                              !.phone_number = resp'.req.phone_number,
                              !.gender = resp'.req.gender,
                              !.date_of_birth = resp'.req.date_of_birth,
                              !.bio = resp'.req.bio,
                              !.updated_by = resp'.caller]} ]_vars

\* the request's phone number is in a stored profile of another user
HeldByAnother(req, caller) ==
    \E p \in profiles : p.phone_number = req.phone_number /\ p.user_id # caller

\* C17: a completion request whose phone_number another user's Profile holds
\* is answered 400 and changes no Profile, and no two Profiles ever share a
\* phone_number
C17_PhoneUnique ==
    [][ /\ \A p1, p2 \in profiles' :
              p1.phone_number = p2.phone_number => p1 = p2
        /\ (/\ resp'.op \in {"complete_profile", "profile_select"}
            /\ resp'.outcome \in {"pending", "phone_taken"}
            /\ HeldByAnother(resp'.req, resp'.caller))
           => /\ resp'.status = 400
              /\ resp'.outcome = "phone_taken"
              /\ profiles' = profiles
              /\ inflight' = inflight
        /\ (/\ resp'.op = "complete_profile"
            /\ HeldByAnother(resp'.req, resp'.caller))
           => profiles' = profiles ]_vars

\* a user asked for the phone number of the other user's profile
C17_Witness ==
    /\ resp.op = "complete_profile"
    /\ resp.status = 400
    /\ resp.outcome = "phone_taken"
    /\ \E p \in profiles :
          /\ p.phone_number = resp.req.phone_number
          /\ p.user_id # resp.caller

\* the preference window of a requester's profile, with the defaults
C14_Window(r) ==
    LET d == IF r.preferences = <<>> THEN Dict(<<>>, <<>>, <<>>)
             ELSE r.preferences[1]
    IN [min_age |-> IF d.min_age = <<>> THEN 18 ELSE d.min_age[1],
        max_age |-> IF d.max_age = <<>> THEN 99 ELSE d.max_age[1],
        distance |-> IF d.distance = <<>> THEN 50000 ELSE d.distance[1]]

C14_Valid(p) == StringToCoordinatesTuple(p.current_coordinates) # <<>>

C14_Place(p) == StringToCoordinatesTuple(p.current_coordinates)[1]

\* C14: the map request of R answers the empty list when R has no profile or
\* no valid coordinates; otherwise exactly the users U of the other gender,
\* online, other than R, active with an active profile, with valid
\* coordinates, within the preferred distance of R and of an age within the
\* preferred window; the preferences default to 18, 99 and 50 km
C14_MapAnswer ==
    resp.op = "map" =>
       LET own == { p \in profiles : p.user_id = resp.caller }
       IN IF own = {} \/ \A r \in own : ~C14_Valid(r)
          THEN resp.map_profiles = {}
          ELSE \A r \in own :
                 resp.map_profiles =
                    { u.user_id : u \in
                        { u \in users :
                            \E p \in profiles :
                               /\ p.user_id = u.user_id
                               /\ p.gender # r.gender
                               /\ p.online
                               /\ u.user_id # resp.caller
                               /\ u.active /\ p.active
                               /\ C14_Valid(p)
                               /\ Haversine(C14_Place(r), C14_Place(p))
                                     <= C14_Window(r).distance
                               /\ C14_Window(r).min_age <= CalcProfileAge(p)
                               /\ CalcProfileAge(p) <= C14_Window(r).max_age } }

\* a requester with an age window of its own is answered one candidate and
\* refused another that has a profile
C14_Witness ==
    /\ resp.op = "map"
    /\ resp.caller = "u1"
    /\ resp.map_profiles = {"u2"}
    /\ \E r \in profiles :
          /\ r.user_id = "u1"
          /\ r.preferences # <<>>
          /\ r.preferences[1].min_age = <<25>>
    /\ \E p \in profiles : p.user_id = "u3"

\* the part of a login answer the client sees
C19_Answer(r) ==
    [status |-> r.status, detail |-> r.detail, headers |-> r.headers,
     access_token |-> r.access_token]

C19_BadCredential ==
    [status |-> 401, detail |-> "Incorrect email or password",
     headers |-> "Bearer", access_token |-> <<>>]

\* C19: login issues a token only for an existing, active user with the
\* correct password; an unknown email and a wrong password get the same 401
\* answer; an inactive user with the correct password gets another rejection
\* than the bad-credential one, and no token
C19_Login ==
    [][resp'.op = "login" =>
         LET known == { u \in users : u.email = resp'.email }
             right == { u \in known :
                          u.hashed_password = <<"hash", resp'.password>> }
         IN /\ resp'.access_token # <<>> =>
                  /\ \E u \in right : u.active
                  /\ resp'.status = 200
            /\ known = {} => C19_Answer(resp') = C19_BadCredential
            /\ (known # {} /\ right = {}) =>
                  C19_Answer(resp') = C19_BadCredential
            /\ (\E u \in right : ~u.active) =>
                  /\ resp'.access_token = <<>>
                  /\ resp'.status \notin {200, 401}
                  /\ resp'.detail # C19_BadCredential.detail
            /\ (\E u \in right : u.active) => resp'.access_token # <<>>
      ]_vars

\* an inactive user gave the correct password
C19_Witness ==
    /\ resp.op = "login"
    /\ resp.status = 400
    /\ \E u \in users :
          /\ u.email = resp.email
          /\ u.hashed_password = <<"hash", resp.password>>
          /\ ~u.active

C22_LoserCommits(w) ==
    /\ inflight[w].pc = "commit"
    /\ inflight[w].existing = 0
    /\ FindMatches(matches, inflight[w].req) # {}
    /\ resp'.op = "match_upsert"
    /\ resp'.worker = w

\* C22 (as claimed): when two upserts of one (my_id, partner_id, thread_id)
\* both look up before either inserts, the store never holds two rows of the
\* triple, and the request that loses is retried and completes as an update
\* of the single row instead of failing
C22_LoserRetriedAsUpdate ==
    [][ \A w \in Workers :
          C22_LoserCommits(w) =>
             /\ Cardinality(FindMatches(matches', inflight[w].req)) = 1
             /\ resp'.status = 201
             /\ resp'.outcome = "update"
             /\ \A m \in FindMatches(matches', inflight[w].req) :
                   /\ m.last_message = inflight[w].req.last_message
                   /\ m.updated_by = inflight[w].caller ]_vars

\* a delivery attempt has come to its end in this step
C23_Delivered ==
    \/ /\ resp'.op \in {"notify_match", "notify_chat"}
       /\ resp'.outcome \in {"sent", "failed"}
    \/ /\ resp'.op = "callback"
       /\ resp'.notified \in {"sent", "failed"}

\* C23 (as claimed): for a match, a chat message and a resolved payment alike,
\* the delivery starts after the triggering write is committed and runs
\* outside the request: the step that produces the operation's response is
\* not a step in which the delivery is attempted
C23_DeliveryOutsideRequest ==
    [][ C23_Delivered =>
          /\ resp'.op \notin {"match_upsert", "callback"}
          /\ \E w \in Workers :
                /\ resp'.worker = w
                /\ inflight[w].pc = "task"
                /\ \E m \in matches : m.match_id = inflight[w].match_id ]_vars

\* a step in which a delivery was attempted and failed
C24_MatchDeliveryFailed ==
    /\ resp'.op \in {"notify_match", "notify_chat"}
    /\ resp'.outcome = "failed"

C24_PaymentDeliveryFailed ==
    /\ resp'.op = "callback"
    /\ resp'.notified = "failed"

\* C24: a failed delivery, of a match, chat or payment notification, is
\* swallowed: it changes no stored row, the triggering operation is answered
\* as it is when the delivery succeeds, and the delivery is not tried again
C24_FailureSwallowed ==
    [][ /\ C24_MatchDeliveryFailed =>
             /\ UNCHANGED <<users, profiles, matches, plans, payments, stk>>
             /\ inflight[resp'.worker].pc = "task"
             /\ inflight' = [inflight EXCEPT ![resp'.worker] = Idle]
        /\ C24_PaymentDeliveryFailed =>
             /\ resp'.status = 200
             /\ resp'.body = "success"
             /\ UNCHANGED <<users, profiles, matches, plans, stk, inflight>>
             /\ \A q \in payments' \ payments :
                   /\ q.payment_id = resp'.payment_id
                   /\ q.transaction_callback = <<resp'.event>>
                   /\ q.transaction_status \in {"SUCCESSFUL", "PARTIALLY_PAID"}
             /\ Cardinality(payments') = Cardinality(payments) ]_vars

\* the delivery of the payment notification failed, the payment is resolved
\* all the same, and no task is left beside the match u2 has written
C24_Witness ==
    /\ resp.op = "callback"
    /\ resp.notified = "failed"
    /\ resp.status = 200
    /\ \E q \in payments :
          /\ q.payment_id = resp.payment_id
          /\ q.transaction_status = "PARTIALLY_PAID"
    /\ \E m \in matches : m.updated_by = "u2"
    /\ \A w \in Workers : inflight[w] = Idle

\* C25 (as claimed): filter_out_profiles_outside_range, given the unfiltered
\* pool, never returns a candidate of the requester's gender, an offline
\* candidate, the requester, or a candidate whose user or profile is inactive
C25_FilterAppliesAll ==
    resp.op = "filter" =>
       \A id \in resp.map_profiles :
          /\ id # resp.caller
          /\ \A u \in users : u.user_id = id => u.active
          /\ \A p \in profiles, r \in profiles :
                (p.user_id = id /\ r.user_id = resp.caller) =>
                   /\ p.gender # r.gender
                   /\ p.online
                   /\ p.active

\* C25 (as the code has it): filter_out_profiles_outside_range, given the
\* unfiltered pool, answers nothing when the requester's coordinates do not
\* parse, and otherwise exactly the users whose coordinates parse, who are
\* within the preferred distance and whose age is within the preferred
\* window; gender, online, identity and the active flags are not its concern
C25_FilterAppliesThree ==
    resp.op = "filter" =>
       \A r \in profiles :
          r.user_id = resp.caller =>
             resp.map_profiles =
                IF ~C14_Valid(r) THEN {}
                ELSE { u.user_id : u \in
                         { u \in users :
                             \E p \in profiles :
                                /\ p.user_id = u.user_id
                                /\ C14_Valid(p)
                                /\ Haversine(C14_Place(r), C14_Place(p))
                                      <= C14_Window(r).distance
                                /\ C14_Window(r).min_age <= CalcProfileAge(p)
                                /\ CalcProfileAge(p) <= C14_Window(r).max_age } }

\* the filter has returned the requester and an offline candidate, for a
\* requester with a window of its own
C25_Witness ==
    /\ resp.op = "filter"
    /\ resp.caller = "u1"
    /\ resp.map_profiles = {"u1", "u2", "u3"}
    /\ \E p \in profiles : p.user_id = "u2" /\ ~p.online
    /\ \E r \in profiles : r.user_id = "u1" /\ r.preferences # <<>>

\* a numeric token: blanks around an optional sign, digits and at most one
\* point, with a digit somewhere
C26_Numeric(token) ==
    LET s == Strip(token)
        b == IF s # <<>> /\ s[1] \in {"-", "+"} THEN SubSeq(s, 2, Len(s)) ELSE s
    IN /\ \A i \in 1..Len(b) :
             b[i] \in {"0", "1", "2", "3", "4", "5", "6", "7", "8", "9", "."}
       /\ \E i \in 1..Len(b) : b[i] # "."
       /\ Cardinality({ i \in 1..Len(b) : b[i] = "." }) <= 1

\* the tokens around the one comma of a text that has exactly one
C26_Comma(text) == CHOOSE i \in 1..Len(text) : text[i] = ","

C26_Lat(text) == SubSeq(text, 1, C26_Comma(text) - 1)

C26_Lng(text) == SubSeq(text, C26_Comma(text) + 1, Len(text))

\* C26: the parser returns the pair (lat, lng) exactly when the text has two
\* comma-separated numeric tokens with lat within [-90, 90] and lng within
\* [-180, 180], and returns invalid for every other text: no text, an empty
\* or blank one, another number of tokens, a token that is not a number, a
\* value out of range
C26_ParseCoordinates ==
    resp.op = "parse" =>
       IF /\ resp.text # <<>>
          /\ Cardinality({ i \in 1..Len(resp.text[1]) :
                             resp.text[1][i] = "," }) = 1
          /\ C26_Numeric(C26_Lat(resp.text[1]))
          /\ C26_Numeric(C26_Lng(resp.text[1]))
          /\ FloatOf(C26_Lat(resp.text[1]))[1] >= -90000
          /\ FloatOf(C26_Lat(resp.text[1]))[1] <= 90000
          /\ FloatOf(C26_Lng(resp.text[1]))[1] >= -180000
          /\ FloatOf(C26_Lng(resp.text[1]))[1] <= 180000
       THEN resp.result = << << FloatOf(C26_Lat(resp.text[1]))[1],
                                FloatOf(C26_Lng(resp.text[1]))[1] >> >>
       ELSE resp.result = <<>>

\* the text " -1.292, 36.821 " has been parsed into its pair
C26_Witness ==
    /\ resp.op = "parse"
    /\ resp.text # <<>>
    /\ Len(resp.text[1]) = 16
    /\ resp.result = << <<-1292, 36821>> >>

\* C27 (as claimed): a zero-code webhook never increases a payment's stored
\* amount: after it the amount is the one before or a lesser settled amount,
\* whatever amount the client gave when the payment was created
C27_AmountNeverIncreases ==
    [][ CbSuccessStep =>
          \A p \in CbBefore, q \in CbAfter : q.amount <= p.amount ]_vars

\* C28 (as claimed): the external transaction id identifies one payment:
\* after any create, initiate-stk and owner PATCH requests no two payments
\* carry the same non-null mpesa_transaction_id, so that a webhook for an id
\* can only find one payment
C28_TransactionIdUnique ==
    \A p \in payments, q \in payments :
       (p.mpesa_transaction_id # NULL
          /\ p.mpesa_transaction_id = q.mpesa_transaction_id) => p = q

\* C29 (as claimed): in every stored match, sent_by is absent or is the
\* row's my_id or partner_id, after any upserts; so a chat notification goes
\* to the party who did not send the message
C29_SentByIsParty ==
    \A m \in matches : m.sent_by \in {NULL, m.my_id, m.partner_id}

\* the provider has returned this CheckoutRequestID for a payment: to a
\* request that has yet to commit it, or to one that has stored its reply
C30_Returned(id) ==
    \/ \E job \in stk : job.pc = "commit" /\ job.checkout_id = id
    \/ \E p \in payments :
          /\ p.transaction_response # <<>>
          /\ p.transaction_response[1].CheckoutRequestID = id

\* C30 (as claimed): however an initiate-stk request and the provider's
\* webhook for it interleave, a zero-code webhook carrying the
\* CheckoutRequestID the provider returned for a payment finds that payment
\* and is never answered 404
C30_WebhookFindsPayment ==
    [][ ( /\ resp'.op = "callback"
          /\ resp'.result_code = <<0>>
          /\ Truthy(resp'.event.CheckoutRequestID)
          /\ C30_Returned(resp'.event.CheckoutRequestID) )
        => resp'.status # 404 ]_vars

====
